---------------------------- MODULE Spec2Model ----------------------------
(***************************************************************************)
(* Justified-gallery layout engine of asana-gallery.                       *)
(*                                                                         *)
(* The repository holds two versions of the engine:                        *)
(*   "AsanaGallery"  src/src/AsanaGallery.js  (Math.round, parity spacing) *)
(*   "part_000"      src/unnamed/part_000     (Math.floor, getSpaceToUse)  *)
(* The variable `variant` says which of the two is running.                *)
(*                                                                         *)
(* layoutFrames is modelled as a state machine: one step per iteration of  *)
(* its for loop and one step for the code after the loop.                  *)
(*                                                                         *)
(* JavaScript numbers are IEEE-754 doubles.  Every value the engine stores *)
(* is an integer, Infinity or NaN; the intermediate quotients are kept as  *)
(* exact fractions together with the rounding error the double division    *)
(* makes, so that Math.round and Math.floor see the value the code sees.   *)
(***************************************************************************)
EXTENDS Integers, Sequences, FiniteSets

VARIABLES variant, frames, containerWidth, maxRowHeight, spacing,
          index, row, rowSize, layout, pc

vars == <<variant, frames, containerWidth, maxRowHeight, spacing,
          index, row, rowSize, layout, pc>>

input == <<variant, frames, containerWidth, maxRowHeight, spacing>>

(***************************************************************************)
(* Bounds and input sets.                                                  *)
(***************************************************************************)
MaxFrames == 5

Variants == {"AsanaGallery", "part_000"}

\* <<width, height>> of the input frames with valid geometry.
Shapes == {<<6, 10>>, <<10, 10>>, <<29, 20>>, <<20, 30>>, <<44, 10>>}

\* <<width, height>> with a zero dimension.
BadShapes == {<<10, 0>>, <<0, 10>>, <<0, 0>>}

\* The shapes of the inputs that may be invalid.
MaxFramesAny == 3
AnyShapes == {<<10, 10>>, <<44, 10>>} \cup BadShapes

ContainerWidths == {30}
RowHeights == {10}
Spacings == {0, 8}

BadContainerWidths == {0}
BadRowHeights == {0}
BadSpacings == {-2}

(***************************************************************************)
(* JavaScript number values.  Finite values are the integers themselves    *)
(* (all far below 2^30 in absolute value); the two non-finite values that  *)
(* the engine can produce from non-negative inputs are encoded outside     *)
(* that range.                                                             *)
(***************************************************************************)
Infinity == 2^30
NaN == -(2^30)

isFinite(x) == x # Infinity /\ x # NaN

\* x + y
jsAdd(x, y) ==
  IF x = NaN \/ y = NaN THEN NaN
  ELSE IF x = Infinity \/ y = Infinity THEN Infinity
  ELSE x + y

\* x - y, y finite
jsSub(x, y) == IF isFinite(x) THEN x - y ELSE x

\* x >= y, y finite
jsGE(x, y) ==
  IF x = NaN THEN FALSE
  ELSE IF x = Infinity THEN TRUE
  ELSE x >= y

(***************************************************************************)
(* IEEE-754 double arithmetic on the quotients the engine forms.           *)
(*                                                                         *)
(* The engine divides two integers n / d and then multiplies or divides an *)
(* integer by that quotient.  The double n / d is the 53-bit rounding of   *)
(* the exact fraction:  fl(n / d) = n/d + DivErr(n, d) / (d * 2^E)  with   *)
(* E = 52 - Log2Floor(n, d).  The second operation is rounded again.  Its  *)
(* exact result can differ from the double only by a relative 2^-52, which *)
(* changes Math.floor only when the exact product is an integer and        *)
(* Math.round only when it is an integer plus one half; there the double   *)
(* is below the exact value when the error of the quotient pushes it down  *)
(* by more than half the gap to the next lower double.                     *)
(***************************************************************************)
RECURSIVE Pow2(_)
Pow2(k) == IF k = 0 THEN 1 ELSE 2 * Pow2(k - 1)

\* floor(log2(n / d)) for n, d > 0
RECURSIVE Log2Floor(_, _)
Log2Floor(n, d) ==
  IF n >= 2 * d THEN 1 + Log2Floor(n, 2 * d)
  ELSE IF n < d THEN Log2Floor(2 * n, d) - 1
  ELSE 0

\* (n * 2^e) mod d
RECURSIVE ShiftMod(_, _, _)
ShiftMod(n, e, d) == IF e = 0 THEN n % d ELSE ShiftMod((2 * n) % d, e - 1, d)

\* Signed rounding error of the double n / d, in units of 1 / (d * 2^E).
DivErr(n, d) ==
  LET rem == ShiftMod(n, 52 - Log2Floor(n, d), d)
  IN  IF 2 * rem < d THEN -rem ELSE d - rem

\* n / d is a power of two
IsPow2(n, d) ==
  LET b == Log2Floor(n, d)
  IN  IF b >= 0 THEN n = d * Pow2(b) ELSE n * Pow2(-b) = d

\* x * 2^k > y * 2^j for integers k, j of either sign
ShiftGT(x, k, y, j) ==
  IF k - j >= 0 THEN x * Pow2(k - j) > y ELSE x > y * Pow2(j - k)

\* The double a * (n / d) is below the exact a*n/d, when a*n/d is a double.
MulBelow(a, n, d) ==
  LET s == DivErr(n, d)
      k == IF IsPow2(a * n, d) THEN 4 ELSE 2
  IN  /\ s < 0
      /\ ShiftGT(k * a * (-s), 0, d, Log2Floor(a * n, d) - Log2Floor(n, d))

\* The double a / (n / d) is below the exact a*d/n, when a*d/n is a double.
DivBelow(a, n, d) ==
  LET s == DivErr(n, d)
      k == IF IsPow2(a * d, n) THEN 2 ELSE 1
  IN  /\ s > 0
      /\ ShiftGT(k * a * d * s, 1 - Log2Floor(a * d, n), n * n, -Log2Floor(n, d))

\* Math.round of the exact fraction n / d, d > 0: nearest integer, ties up.
RoundFrac(n, d) == (2 * n + d) \div (2 * d)

\* n / d is an integer plus one half
IsHalf(n, d) == (2 * n) % d = 0 /\ ((2 * n) \div d) % 2 = 1

\* Math.floor(a * (n / d)) for integers a, n, d > 0
FloorMul(a, n, d) ==
  IF (a * n) % d = 0 /\ MulBelow(a, n, d)
  THEN (a * n) \div d - 1
  ELSE (a * n) \div d

\* Math.round(a * (n / d)) for integers a, n, d > 0
RoundMul(a, n, d) ==
  IF IsHalf(a * n, d) /\ MulBelow(a, n, d)
  THEN RoundFrac(a * n, d) - 1
  ELSE RoundFrac(a * n, d)

\* Math.round(a / (n / d)) for integers a, n, d > 0
RoundDiv(a, n, d) ==
  IF IsHalf(a * d, n) /\ DivBelow(a, n, d)
  THEN RoundFrac(a * d, n) - 1
  ELSE RoundFrac(a * d, n)

(***************************************************************************)
(* Math.round(x * (containerWidth / rowSize)) and the Math.floor of the    *)
(* same product, for every value the operands can take when containerWidth *)
(* and the frame dimensions are not negative.                              *)
(***************************************************************************)
\* The row's ratio is NaN (0 / 0, or a NaN rowSize).
RatioIsNaN(cw, size) == size = NaN \/ (size = 0 /\ cw = 0)

\* The row's ratio is 0 (0 / size, or containerWidth / Infinity).
RatioIsZero(cw, size) == ~RatioIsNaN(cw, size) /\ (size = Infinity \/ (cw = 0 /\ size # 0))

\* The row's ratio is Infinity (containerWidth / 0).
RatioIsInf(cw, size) == size = 0 /\ cw > 0

ScaleSpecial(x, cw, size) ==
  IF x = NaN \/ RatioIsNaN(cw, size) THEN NaN
  ELSE IF RatioIsZero(cw, size) THEN (IF x = Infinity THEN NaN ELSE 0)
  ELSE IF RatioIsInf(cw, size) THEN (IF x = 0 THEN NaN ELSE Infinity)
  ELSE IF x = Infinity THEN Infinity
  ELSE 0

IsOrdinary(x, cw, size) ==
  /\ isFinite(x) /\ isFinite(size)
  /\ x > 0 /\ cw > 0 /\ size > 0

ScaleRound(x, cw, size) ==
  IF IsOrdinary(x, cw, size) THEN RoundMul(x, cw, size) ELSE ScaleSpecial(x, cw, size)

ScaleFloor(x, cw, size) ==
  IF IsOrdinary(x, cw, size) THEN FloorMul(x, cw, size) ELSE ScaleSpecial(x, cw, size)

(***************************************************************************)
(* The engine's functions.  A frame is a record [height, width, img]; a    *)
(* row is a sequence of frames, and its JavaScript index i is position     *)
(* i + 1 of the sequence.                                                  *)
(***************************************************************************)
\* adjustHeight that scales the width and keeps the frame's own height.
adjustHeight_ownHeight(frame, maxHeight) ==
  LET h == frame.height
      w == frame.width
      width ==
        IF h = 0 /\ w = 0 THEN NaN
        ELSE IF w = 0 THEN 0
        ELSE IF h = 0 THEN (IF maxHeight = 0 THEN NaN ELSE Infinity)
        ELSE IF maxHeight = 0 THEN 0
        ELSE RoundDiv(maxHeight, h, w)
  IN  [height |-> h, width |-> width]

adjustHeight(frame, maxHeight) ==
  LET h == frame.height
      w == frame.width
      \* Math.round(maxHeight / ratio), ratio = frame.height / frame.width
      width ==
        IF h = 0 /\ w = 0 THEN NaN
        ELSE IF w = 0 THEN 0
        ELSE IF h = 0 THEN (IF maxHeight = 0 THEN NaN ELSE Infinity)
        ELSE IF maxHeight = 0 THEN 0
        ELSE RoundDiv(maxHeight, h, w)
  IN  [height |-> maxHeight, width |-> width]

\* adjustRowWidth with the ratio upside down: rowSize / containerWidth.
adjustRowWidth_inverted(r, size, cw, sp) ==
  [i \in 1..Len(r) |->
     LET idx == i - 1
         spaceToAdd ==
           IF Len(r) % 2 = 0 \/ (Len(r) > 1 /\ (idx + 1) % 2 = 1) THEN sp ELSE 0
     IN  [height |-> ScaleRound(r[i].height, size, cw),
          width  |-> jsSub(ScaleRound(r[i].width, size, cw), spaceToAdd),
          img    |-> r[i].img]]

adjustRowWidth(r, size, cw, sp) ==
  [i \in 1..Len(r) |->
     LET idx == i - 1
         spaceToAdd ==
           IF Len(r) % 2 = 0 \/ (Len(r) > 1 /\ (idx + 1) % 2 = 1) THEN sp ELSE 0
     IN  [height |-> ScaleRound(r[i].height, cw, size),
          width  |-> jsSub(ScaleRound(r[i].width, cw, size), spaceToAdd),
          img    |-> r[i].img]]

getSpaceToUse(r, idx, sp) ==
  IF Len(r) > 2 /\ (Len(r) % 2 = 0 \/ idx > 0) THEN sp
  ELSE IF Len(r) = 2 /\ idx = 0 THEN sp
  ELSE 0

adjustRowWidth_part_000(r, size, cw, sp) ==
  [i \in 1..Len(r) |->
     LET spaceToUse == getSpaceToUse(r, i - 1, sp)
     IN  [height |-> ScaleFloor(r[i].height, cw, size),
          width  |-> jsSub(ScaleFloor(r[i].width, cw, size), spaceToUse),
          img    |-> r[i].img]]

(***************************************************************************)
(* layoutFrames.                                                           *)
(***************************************************************************)
\* The frame the loop is at, scaled, and the row and accumulator with it.
frame == frames[index + 1]
maxHeight == IF Len(row) > 0 THEN row[1].height ELSE maxRowHeight
scaled == adjustHeight(frame, maxHeight)
pushed == Append(row, [height |-> scaled.height, width |-> scaled.width, img |-> frame.img])
accumulated == jsAdd(rowSize, scaled.width)

\* The row adjusted without the frame the loop is at.
adjusted_stale ==
  IF variant = "AsanaGallery"
  THEN adjustRowWidth(row, rowSize, containerWidth, spacing)
  ELSE adjustRowWidth_part_000(row, rowSize, containerWidth, spacing)

adjusted ==
  IF variant = "AsanaGallery"
  THEN adjustRowWidth(pushed, accumulated, containerWidth, spacing)
  ELSE adjustRowWidth_part_000(pushed, accumulated, containerWidth, spacing)

\* An iteration that leaves the row open.
PushFrame ==
  /\ pc = "loop"
  /\ index < Len(frames)
  /\ ~jsGE(accumulated, containerWidth)
  /\ row' = pushed
  /\ rowSize' = accumulated
  /\ index' = index + 1
  /\ UNCHANGED <<input, layout, pc>>

\* CloseRow that leaves the accumulator as it is.
CloseRow_carry ==
  /\ pc = "loop"
  /\ index < Len(frames)
  /\ jsGE(accumulated, containerWidth)
  /\ layout' = Append(layout, adjusted)
  /\ rowSize' = accumulated
  /\ row' = <<>>
  /\ index' = index + 1
  /\ UNCHANGED <<input, pc>>

\* An iteration that fills the row: adjust it, push it, reset.
CloseRow ==
  /\ pc = "loop"
  /\ index < Len(frames)
  /\ jsGE(accumulated, containerWidth)
  /\ layout' = Append(layout, adjusted)
  /\ rowSize' = 0
  /\ row' = <<>>
  /\ index' = index + 1
  /\ UNCHANGED <<input, pc>>

\* Return that justifies the trailing row too.
Return_justified ==
  /\ pc = "loop"
  /\ index >= Len(frames)
  /\ layout' = IF Len(row) > 0
               THEN Append(layout, adjustRowWidth(row, rowSize, containerWidth, spacing))
               ELSE layout
  /\ pc' = "done"
  /\ UNCHANGED <<input, index, row, rowSize>>

\* Return that pushes the row buffer without looking at its length.
Return_unguarded ==
  /\ pc = "loop"
  /\ index >= Len(frames)
  /\ layout' = Append(layout, row)
  /\ pc' = "done"
  /\ UNCHANGED <<input, index, row, rowSize>>

\* After the loop: add any missing row and return the layout.
Return ==
  /\ pc = "loop"
  /\ index >= Len(frames)
  /\ layout' = IF Len(row) > 0 THEN Append(layout, row) ELSE layout
  /\ pc' = "done"
  /\ UNCHANGED <<input, index, row, rowSize>>

Next == PushFrame \/ CloseRow \/ Return

\* The input sequences of n frames drawn from a set of shapes; the payload
\* of the k-th frame is k.
FramesOf(shapes, n) ==
  {[k \in 1..n |-> [height |-> f[k][2], width |-> f[k][1], img |-> k]] :
     f \in [1..n -> shapes]}

Start ==
  /\ pc = "loop"
  /\ index = 0
  /\ row = <<>>
  /\ rowSize = 0
  /\ layout = <<>>

\* Valid geometry and parameters.
Init ==
  /\ variant \in Variants
  /\ frames \in UNION {FramesOf(Shapes, n) : n \in 0..MaxFrames}
  /\ containerWidth \in ContainerWidths
  /\ maxRowHeight \in RowHeights
  /\ spacing \in Spacings
  /\ Start

Spec == Init /\ [][Next]_vars

\* Any geometry and parameters, zero dimensions and parameters included.
InitAny ==
  /\ variant \in Variants
  /\ frames \in UNION {FramesOf(AnyShapes, n) : n \in 0..MaxFramesAny}
  /\ containerWidth \in ContainerWidths \cup BadContainerWidths
  /\ maxRowHeight \in RowHeights \cup BadRowHeights
  /\ spacing \in Spacings \cup BadSpacings
  /\ Start

SpecAny == InitAny /\ [][Next]_vars

(***************************************************************************)
(* Vocabulary of the properties.                                           *)
(***************************************************************************)
Abs(x) == IF x < 0 THEN -x ELSE x

RECURSIVE SumWidth(_)
SumWidth(r) == IF r = <<>> THEN 0 ELSE r[1].width + SumWidth(Tail(r))

RECURSIVE Flatten(_)
Flatten(rows) == IF rows = <<>> THEN <<>> ELSE rows[1] \o Flatten(Tail(rows))

\* The input frame an output frame was made from (the payload of the k-th
\* input frame is k).
Original(f) == frames[f.img]

\* The width the presentation layer draws for a row: the frames' widths and
\* a left margin of `spacing` on every frame but the first.
RenderedWidth(r) == SumWidth(r) + (Len(r) - 1) * spacing

Returned == pc = "done"

HasInvalidFrame ==
  \E k \in 1..Len(frames) : frames[k].height <= 0 \/ frames[k].width <= 0

HasInvalidParameters == containerWidth <= 0 \/ maxRowHeight <= 0 \/ spacing < 0

\* The width of the k-th input frame at the height maxRowHeight.
StageAWidth(k) == adjustHeight(frames[k], maxRowHeight).width

RECURSIVE StageASum(_)
StageASum(r) == IF r = <<>> THEN 0 ELSE StageAWidth(r[1].img) + StageASum(Tail(r))

\* w is an integer nearest to n / d
Nearest(w, n, d) == Abs(2 * w * d - 2 * n) <= d

(***************************************************************************)
(* C1  Row width law: in the returned layout every row except possibly the *)
(* last has a rendered width (frame widths plus (rowLength - 1) * spacing) *)
(* equal to containerWidth, within 1px per frame of the row.               *)
(* The code breaks it: both versions subtract spacing from rowLength       *)
(* frames when the row length is even (AsanaGallery.js also from           *)
(* (rowLength + 1) / 2 frames of an odd row), not from rowLength - 1.      *)
(***************************************************************************)
RowWidthLaw ==
  Returned =>
    \A i \in 1..(Len(layout) - 1) :
       Abs(RenderedWidth(layout[i]) - containerWidth) <= Len(layout[i])

(***************************************************************************)
(* C2  Order preservation and count conservation: the rows of the returned *)
(* layout, concatenated, carry the payloads of the input frames in input   *)
(* order, one output frame per input frame, and no row is empty.           *)
(***************************************************************************)
OrderPreserved ==
  /\ \A i \in 1..Len(layout) : Len(layout[i]) > 0
  /\ Returned =>
       /\ Len(Flatten(layout)) = Len(frames)
       /\ \A k \in 1..Len(frames) : Flatten(layout)[k].img = frames[k].img

\* A layout of several rows, one of them of several frames, was returned.
OrderPreservedWitness ==
  /\ Returned
  /\ Len(layout) >= 3
  /\ Len(frames) = MaxFrames
  /\ \E i \in 1..Len(layout) : Len(layout[i]) >= 2

(***************************************************************************)
(* C3  Aspect ratio preservation: every output frame's width is within 2px *)
(* of outputHeight * originalWidth / originalHeight.                       *)
(* The code breaks it: the spacing is taken out of the width alone, and    *)
(* the rounding of the height is multiplied by the aspect ratio.           *)
(***************************************************************************)
AspectRatioPreserved ==
  Returned =>
    \A i \in 1..Len(layout) : \A j \in 1..Len(layout[i]) :
       LET f == layout[i][j]
           o == Original(f)
       IN  Abs(f.width * o.height - f.height * o.width) <= 2 * o.height

(***************************************************************************)
(* C4  Row height bound: every frame of the row buffer has a height of at  *)
(* most maxRowHeight, and so has every frame of every row of the layout:   *)
(* the correction never increases a height.                                *)
(***************************************************************************)
RowHeightBound ==
  /\ \A j \in 1..Len(row) : row[j].height <= maxRowHeight
  /\ \A i \in 1..Len(layout) : \A j \in 1..Len(layout[i]) :
       layout[i][j].height <= maxRowHeight

\* A layout was returned with a corrected row lower than maxRowHeight and
\* an uncorrected trailing row.
RowHeightBoundWitness ==
  /\ Returned
  /\ Len(row) > 0
  /\ \E i \in 1..Len(layout) :
       /\ layout[i][1].height < maxRowHeight
       /\ layout[i][1].height > 0

(***************************************************************************)
(* C5  Invalid frame: with an input frame of height 0 or width 0,          *)
(* layoutFrames raises InvalidFrame and returns no layout.                 *)
(* Stated for valid parameters.  The code has no check and no throw: it    *)
(* returns a layout whose rows hold the Infinity, NaN and 0 widths         *)
(* computed from the frame.                                                *)
(***************************************************************************)
InvalidFrameRaises == (HasInvalidFrame /\ ~HasInvalidParameters) => ~Returned

(***************************************************************************)
(* C6  Invalid parameters: with containerWidth <= 0, maxRowHeight <= 0 or  *)
(* spacing < 0, layoutFrames raises InvalidParameters and returns no       *)
(* layout.  Stated for a non-empty input of valid frames.  The code has no *)
(* check and no throw: it returns a layout.                                *)
(***************************************************************************)
InvalidParametersRaises ==
  (HasInvalidParameters /\ ~HasInvalidFrame /\ Len(frames) > 0) => ~Returned

SingleOversizedFrame ==
  \A i \in 1..Len(layout) :
     StageAWidth(layout[i][1].img) >= containerWidth =>
       /\ Len(layout[i]) = 1
       /\ layout[i][1].width = containerWidth

(***************************************************************************)
(* C9  Output geometry domain: every frame of every returned row has a     *)
(* width >= 0 and a height >= 0.                                           *)
(* The code breaks it: the spacing is subtracted from the scaled width     *)
(* without a lower bound, so a spacing larger than the scaled width gives  *)
(* a negative width.                                                       *)
(***************************************************************************)
OutputGeometryDomain ==
  Returned =>
    \A i \in 1..Len(layout) : \A j \in 1..Len(layout[i]) :
       layout[i][j].width >= 0 /\ layout[i][j].height >= 0

(***************************************************************************)
(* C10  Empty input: layoutFrames([], W, H, S) returns the empty layout    *)
(* for all W, H and S.                                                     *)
(***************************************************************************)
EmptyInput == (Returned /\ Len(frames) = 0) => layout = <<>>

\* The empty input was laid out with parameters outside their domain.
EmptyInputWitness ==
  /\ Returned
  /\ Len(frames) = 0
  /\ containerWidth = 0
  /\ maxRowHeight = 0
  /\ spacing < 0

(***************************************************************************)
(* C11  Same height within a row: all frames of the row buffer have one    *)
(* height, and all frames of every row of the layout, corrected or         *)
(* trailing, have one height.                                              *)
(***************************************************************************)
SameHeightInRow ==
  /\ \A j \in 1..Len(row) : row[j].height = row[1].height
  /\ \A i \in 1..Len(layout) : \A j \in 1..Len(layout[i]) :
       layout[i][j].height = layout[i][1].height

\* A layout was returned with a corrected row, lower than maxRowHeight, of
\* frames whose input heights differ, and a trailing row of several frames
\* whose input heights differ.
SameHeightWitness ==
  /\ Returned
  /\ Len(row) >= 2
  /\ \E j \in 1..Len(row) : Original(row[j]).height # Original(row[1]).height
  /\ \E i \in 1..(Len(layout) - 1) :
       /\ Len(layout[i]) >= 2
       /\ layout[i][1].height < maxRowHeight
       /\ \E j \in 1..Len(layout[i]) :
            Original(layout[i][j]).height # Original(layout[i][1]).height

(***************************************************************************)
(* C12  Stage B formula and rounding mode: in every corrected row, with    *)
(* rowSize the sum of the row's widths at maxRowHeight, each frame's       *)
(* height is the integer nearest to height * containerWidth / rowSize and  *)
(* its width plus the spacing subtracted from it is the integer nearest to *)
(* width * containerWidth / rowSize: round to nearest, not floor or ceil.  *)
(* part_000 breaks it: its adjustRowWidth uses Math.floor for both.        *)
(***************************************************************************)
\* Row i of the layout went through adjustRowWidth.
Corrected(i) == i < Len(layout) \/ ~Returned \/ Len(row) = 0

\* The spacing the running version subtracts from the frame at JavaScript
\* index idx of the row r.
SpaceSubtracted(r, idx) ==
  IF variant = "AsanaGallery"
  THEN (IF Len(r) % 2 = 0 \/ (Len(r) > 1 /\ (idx + 1) % 2 = 1) THEN spacing ELSE 0)
  ELSE getSpaceToUse(r, idx, spacing)

StageBRounds ==
  \A i \in 1..Len(layout) :
     Corrected(i) =>
       \A j \in 1..Len(layout[i]) :
          LET r == layout[i]
              size == StageASum(r)
          IN  /\ Nearest(r[j].height, maxRowHeight * containerWidth, size)
              /\ Nearest(r[j].width + SpaceSubtracted(r, j - 1),
                         StageAWidth(r[j].img) * containerWidth, size)

(***************************************************************************)
(* C13  Row closing rule: a row is closed at the first frame at which the  *)
(* sum of the widths at maxRowHeight since the previous close reaches      *)
(* containerWidth, and the buffer and the accumulator start again from     *)
(* empty and 0.  So between iterations the accumulator is the sum of the   *)
(* buffer's widths and is below containerWidth; every corrected row's      *)
(* widths at maxRowHeight sum to at least containerWidth and to less       *)
(* without its last frame; an uncorrected trailing row's sum is below      *)
(* containerWidth.                                                         *)
(***************************************************************************)
RowClosingRule ==
  /\ rowSize = SumWidth(row)
  /\ rowSize < containerWidth
  /\ \A j \in 1..Len(row) : row[j].width = StageAWidth(row[j].img)
  /\ \A i \in 1..Len(layout) :
       LET r == layout[i]
       IN  IF Corrected(i)
           THEN /\ StageASum(r) >= containerWidth
                /\ StageASum(SubSeq(r, 1, Len(r) - 1)) < containerWidth
           ELSE StageASum(r) < containerWidth

\* A layout was returned with two corrected rows, one of several frames and
\* one whose widths at maxRowHeight pass containerWidth, and a trailing row.
RowClosingWitness ==
  /\ Returned
  /\ Len(row) > 0
  /\ Len(layout) >= 3
  /\ \E i \in 1..(Len(layout) - 1) : Len(layout[i]) >= 3
  /\ \E i \in 1..(Len(layout) - 1) : StageASum(layout[i]) > containerWidth
  /\ \E i \in 1..(Len(layout) - 1) : StageASum(layout[i]) = containerWidth

=============================================================================
